---- MODULE Spec2Model ----
(***************************************************************************)
(* The real-time order-tracking pipeline of the storefront:                *)
(*   - the Client Tracking Session   (hook useRealTimeTracking),           *)
(*   - the Multi-Order Aggregator    (hook useMultipleOrderTracking),      *)
(*   - the orders event stream       (route GET and emitOrderEvent).       *)
(*                                                                         *)
(* A session is a record; every handler of the hook is an operator that    *)
(* maps the session before the handler to the session after it.  The       *)
(* field `calls` is the trace of the externally visible calls the handler  *)
(* made (owner callbacks, toasts, EventSource and timer operations).       *)
(***************************************************************************)
EXTENDS Integers, Sequences, FiniteSets, Bags, TLC

VARIABLES
    session,      \* the Client Tracking Session of SpecSession
    before,       \* what the session was before the last step (history)
    retries,      \* backoff timers scheduled since the last transport open (history)
    quiesced,     \* the owner's last request was disconnect() (history)
    clients,      \* the broadcaster's array of clients, as the ids in array order
    clientSeq,    \* the broadcaster's next client id
    streams,      \* the ReadableStream of every request served, by client id
    last,         \* the last step of the stream route and its outcome (history)
    orderIds,     \* the aggregator's input: a sequence of order ids
    children,     \* the aggregator's child sessions, one per index of orderIds
    connections,  \* the aggregator's state `connections`: order id -> boolean
    merged,       \* the aggregator's state `trackingData`: order id -> payload
    aggPhase,     \* "rendered", "mounted" or "unmounted"
    effectsDue,   \* the aggregator rendered again and its effects have yet to run
    acted         \* the index of the child the last step was about, or 0 (history)

sessionVars == <<session, before, retries, quiesced>>
serverVars == <<clients, clientSeq, streams, last>>
aggVars == <<orderIds, children, connections, merged, aggPhase, effectsDue, acted>>
vars == <<session, before, retries, quiesced, clients, clientSeq, streams, last,
          orderIds, children, connections, merged, aggPhase, effectsDue, acted>>

---------------------------------------------------------------------------
(* Bounds of the model *)

\* EventSource objects of one session that are live at one time
MaxSources == 2
\* timers of one session that are pending at one time
MaxTimers == 2
\* stream requests served by the route
MaxClients == 2
\* order ids given to the aggregator
MaxOrderIds == 2
\* EventSource objects of one child of the aggregator live at one time
MaxChildSources == 1
\* timers of one child of the aggregator pending at one time
MaxChildTimers == 1
\* a reconnectInterval an owner passes in place of the default, in ms
ShortReconnectInterval == 2000
\* chunks written to one stream
MaxChunks == 2
\* stream requests served by the route in SpecRegistry
MaxSubscribers == 3
\* stream requests served by the route in SpecDelivery
MaxListeners == 1
\* chunks written to one stream in SpecDelivery
MaxDelivered == 3
\* stream requests served by the route in SpecFanout
MaxEnrolled == 3
\* distinct lastUpdated timestamps a tracking payload may carry
MaxStamp == 2

(* Program constants *)

maxReconnectAttempts == 5
ReconnectDelay == 1000
DefaultReconnectInterval == 5000

ValidationError == "Order ID or tracking number is required"
ConnectionError == "Connection error"
UnknownError == "Unknown error"
NoError == "null"

---------------------------------------------------------------------------
(* Tracking payloads: RealTimeTrackingData as a partial map from field to  *)
(* value; optional fields may be absent.                                   *)

Opt(f, v) == IF v = "absent" THEN <<>> ELSE (f :> v)

TrackingPayload(st, car, loc, new) ==
    [status |-> st, hasNewUpdate |-> new]
        @@ Opt("carrier", car) @@ Opt("currentLocation", loc)

Payloads ==
    { TrackingPayload("shipped", "bluedart", "Delhi", "true"),
      TrackingPayload("shipped", "absent", "Pune", "false"),
      TrackingPayload("delivered", "absent", "absent", "true") }

\* useState<RealTimeTrackingData | null>(null)
NoData == <<>>

---------------------------------------------------------------------------
(* Calls a handler makes, in order *)

Call(op, n) == [op |-> op, n |-> n]

Said(s, op) == \E i \in 1..Len(s.calls) : s.calls[i].op = op
SaidWith(s, op, n) == \E i \in 1..Len(s.calls) : s.calls[i] = Call(op, n)
CountSaid(s, op) == Cardinality({ i \in 1..Len(s.calls) : s.calls[i].op = op })

Emit(s, op, n) == [s EXCEPT !.calls = Append(@, Call(op, n))]

\* toast.* of sonner, when enableToasts
Toast(s, op, n) == IF s.enableToasts THEN Emit(s, op, n) ELSE s

---------------------------------------------------------------------------
(* Handles.  eventSourceRef holds the readyState of the EventSource it     *)
(* refers to, or "null"; reconnectTimeoutRef holds the timer it refers to, *)
(* or NoTimer.  An EventSource or a timer that no ref refers to any more   *)
(* lives on in the browser: orphanSources and orphanTimers are the bags of *)
(* those that are still live (CONNECTING or OPEN) or still pending.        *)

NoTimer == [kind |-> "null", delay |-> 0]
Timer(kind, delay) == [kind |-> kind, delay |-> delay]

One(x) == SetToBag({x})

IsLive(readyState) == readyState \in {"connecting", "open"}
IsPending(timer) == timer.kind \in {"backoff", "reconnect"}

\* the EventSources of s that are CONNECTING or OPEN
LiveCount(s) ==
    (IF IsLive(s.eventSourceRef) THEN 1 ELSE 0) + BagCardinality(s.orphanSources)

\* the timers of s that will still fire
PendingCount(s) ==
    (IF IsPending(s.reconnectTimeoutRef) THEN 1 ELSE 0) + BagCardinality(s.orphanTimers)

hasKey(s) == s.orderId \/ s.trackingNumber

\* React drops state updates of an unmounted component
SetState(s, f, v) == IF s.phase = "unmounted" THEN s ELSE [s EXCEPT ![f] = v]

\* ref.current = handle: what the ref referred to is referred to no more
DropSource(s) ==
    IF IsLive(s.eventSourceRef)
    THEN [s EXCEPT !.orphanSources = @ (+) One(s.eventSourceRef)]
    ELSE s

DropTimer(s) ==
    IF IsPending(s.reconnectTimeoutRef)
    THEN [s EXCEPT !.orphanTimers = @ (+) One(s.reconnectTimeoutRef)]
    ELSE s

---------------------------------------------------------------------------
(* The hook's handlers, as session -> session *)

\* const eventSource = new EventSource(url); eventSourceRef.current = eventSource
connectOpen(s) ==
    Emit([DropSource(s) EXCEPT !.eventSourceRef = "connecting"], "newEventSource", 0)

connectUngated(s) == connectOpen(s)

connect(s) ==
    IF ~hasKey(s)
    THEN SetState(s, "error", ValidationError)
    ELSE connectOpen(s)

onopenKeepingAttempts(s) ==
    LET s1 == SetState(SetState(s, "isConnected", TRUE), "error", NoError)
    IN  Toast(Emit(s1, "onConnectionChange", 1), "toast.connected", 0)

\* eventSource.onopen
onopen(s) ==
    LET s1 == SetState(SetState(s, "isConnected", TRUE), "error", NoError)
        s2 == [s1 EXCEPT !.reconnectAttempts = 0]
        s3 == Emit(s2, "onConnectionChange", 1)
    IN  Toast(s3, "toast.connected", 0)

backoffDelayDoubling(s) == s.reconnectInterval * 2 ^ (s.reconnectAttempts - 1)

\* reconnectInterval * reconnectAttempts.current
backoffDelay(s) == s.reconnectInterval * s.reconnectAttempts

\* autoReconnect && reconnectAttempts.current < maxReconnectAttempts
mayRetry(s) == s.autoReconnect /\ s.reconnectAttempts < maxReconnectAttempts

\* reconnectTimeoutRef.current = setTimeout(() => { disconnect(); connect() }, delay)
scheduleRetry(s) ==
    Emit([DropTimer(s) EXCEPT !.reconnectTimeoutRef = Timer("backoff", backoffDelay(s))],
         "setTimeout", backoffDelay(s))

\* eventSource.onerror
onerror(s) ==
    LET s1 == SetState(SetState(s, "isConnected", FALSE), "error", ConnectionError)
        s2 == Emit(s1, "onConnectionChange", 0)
    IN  IF mayRetry(s2)
        THEN LET s3 == [s2 EXCEPT !.reconnectAttempts = @ + 1]
             IN  scheduleRetry(Toast(s3, "toast.reconnecting", s3.reconnectAttempts))
        ELSE Toast(s2, "toast.exhausted", 0)

closeSourceUnguarded(s) == Emit([s EXCEPT !.eventSourceRef = "null"], "close", 0)

\* if (eventSourceRef.current) { eventSourceRef.current.close(); eventSourceRef.current = null }
closeSource(s) ==
    IF s.eventSourceRef # "null"
    THEN Emit([s EXCEPT !.eventSourceRef = "null"], "close", 0)
    ELSE s

\* if (reconnectTimeoutRef.current) { clearTimeout(...); reconnectTimeoutRef.current = null }
clearReconnectTimeout(s) ==
    IF s.reconnectTimeoutRef # NoTimer
    THEN Emit([s EXCEPT !.reconnectTimeoutRef = NoTimer], "clearTimeout", 0)
    ELSE s

disconnect(s) ==
    LET s1 == clearReconnectTimeout(closeSource(s))
        s2 == SetState(s1, "isConnected", FALSE)
    IN  Emit(s2, "onConnectionChange", 0)

\* reconnect: () => { disconnect(); setTimeout(connect, 1000) }
reconnect(s) ==
    LET s1 == disconnect(s)
    IN  Emit([s1 EXCEPT !.orphanTimers = @ (+) One(Timer("reconnect", ReconnectDelay))],
             "setTimeout", ReconnectDelay)

timerCallbackClosing(s, kind) ==
    IF kind = "backoff" THEN disconnect(s) ELSE connect(s)

\* the callback of a timer of the given kind
timerCallback(s, kind) ==
    IF kind = "backoff" THEN connect(disconnect(s)) ELSE connect(s)

visibleWantsConnectAlways(s) == hasKey(s)

\* document.visibilityState === 'visible' && !isConnected && (orderId || trackingNumber)
visibleWantsConnect(s) == ~s.isConnected /\ hasKey(s)

handleVisibilityChange(s) == IF visibleWantsConnect(s) THEN connect(s) ELSE s

---------------------------------------------------------------------------
(* Wire events of the tracking channel, after JSON.parse *)

StatusPayloads ==
    { [status |-> "delivered", message |-> "Order delivered"],
      [status |-> "delivered"] }

Event(type, data, message) == [type |-> type, data |-> data, message |-> message]

NoEvent == Event("none", NoData, "absent")

\* type "malformed": event.data is no JSON text, JSON.parse throws
WireEvents ==
    { Event(ty, NoData, "absent") :
        ty \in {"connected", "heartbeat", "order_update", "unknown", "malformed"} }
    \cup { Event("tracking_update", d, "absent") : d \in Payloads \cup {NoData} }
    \cup { Event("status_change", d, "absent") : d \in StatusPayloads \cup {NoData} }
    \cup { Event("error", NoData, m) : m \in {"absent", "Server failure"} }

\* showNotification(title, body, data)
showNotification(s) ==
    IF ~s.enableNotifications THEN s
    ELSE IF s.permission = "granted" THEN Emit(s, "Notification", 0)
    ELSE Toast(s, "toast.notification", 0)

onTrackingUpdateEventMerging(s, ev) ==
    LET s1 == SetState(SetState(s, "trackingData", ev.data @@ s.trackingData),
                       "lastUpdate", "Date")
        s2 == Emit(s1, "onTrackingUpdate", 0)
    IN  IF ev.data = NoData THEN Emit(s2, "console.error", 0)
        ELSE IF ev.data.hasNewUpdate = "true" THEN Toast(s2, "toast.tracking", 0)
        ELSE s2

\* case 'tracking_update': property access on an undefined payload throws
\* after the state was set; the catch of onmessage swallows it
onTrackingUpdateEvent(s, ev) ==
    LET s1 == SetState(SetState(s, "trackingData", ev.data), "lastUpdate", "Date")
        s2 == Emit(s1, "onTrackingUpdate", 0)
    IN  IF ev.data = NoData THEN Emit(s2, "console.error", 0)
        ELSE IF ev.data.hasNewUpdate = "true" THEN Toast(s2, "toast.tracking", 0)
        ELSE s2

\* case 'status_change'
onStatusChangeEvent(s, ev) ==
    LET s1 == Emit(s, "onStatusChange", 0)
    IN  IF ev.data = NoData THEN Emit(s1, "console.error", 0)
        ELSE showNotification(s1)

onErrorEventDisconnecting(s, ev) ==
    LET m == IF ev.message = "absent" THEN UnknownError ELSE ev.message
    IN  Toast(SetState(SetState(s, "error", m), "isConnected", FALSE), "toast.error", 0)

\* case 'error'
onErrorEvent(s, ev) ==
    LET m == IF ev.message = "absent" THEN UnknownError ELSE ev.message
    IN  Toast(SetState(s, "error", m), "toast.error", 0)

onmessageClearing(s, ev) ==
    LET s0 == [s EXCEPT !.event = ev] IN
    CASE ev.type = "malformed"       -> Emit(s0, "console.error", 0)
      [] ev.type = "tracking_update" -> onTrackingUpdateEvent(s0, ev)
      [] ev.type = "status_change"   -> onStatusChangeEvent(s0, ev)
      [] ev.type = "error"           -> onErrorEvent(s0, ev)
      [] OTHER                       -> SetState(s0, "trackingData", NoData)

\* eventSource.onmessage
onmessage(s, ev) ==
    LET s0 == [s EXCEPT !.event = ev] IN
    CASE ev.type = "malformed"       -> Emit(s0, "console.error", 0)
      [] ev.type = "tracking_update" -> onTrackingUpdateEvent(s0, ev)
      [] ev.type = "status_change"   -> onStatusChangeEvent(s0, ev)
      [] ev.type = "error"           -> onErrorEvent(s0, ev)
      [] OTHER                       -> s0

---------------------------------------------------------------------------
(* One Client Tracking Session *)

\* the hook after its first render, before its effects ran
NewSession(orderId, trackingNumber, autoReconnect, interval, toasts, notifications, permission) ==
    [ orderId |-> orderId, trackingNumber |-> trackingNumber,
      autoReconnect |-> autoReconnect, reconnectInterval |-> interval,
      enableToasts |-> toasts, enableNotifications |-> notifications,
      permission |-> permission,
      phase |-> "rendered",
      eventSourceRef |-> "null",
      orphanSources |-> EmptyBag,
      reconnectTimeoutRef |-> NoTimer,
      orphanTimers |-> EmptyBag,
      reconnectAttempts |-> 0,
      isConnected |-> FALSE,
      error |-> NoError,
      trackingData |-> NoData,
      lastUpdate |-> "null",
      event |-> NoEvent,
      op |-> "render",
      calls |-> <<>> ]

\* a request that names neither an order id nor a tracking number
NoQuery == [orderId |-> FALSE, trackingNumber |-> FALSE]

\* a handler starts with an empty trace of calls and no event in hand
Begin(s, op) == [s EXCEPT !.op = op, !.calls = <<>>, !.event = NoEvent]

\* room for the EventSource that connect() may create
RoomToConnect(s) == hasKey(s) => LiveCount(s) < MaxSources

(* The steps of a session: each is the session after the step, and is     *)
(* taken only where its guard holds.                                       *)

\* the init effect: if (orderId || trackingNumber) { connect() }
mountEffect(s) ==
    LET s0 == Begin([s EXCEPT !.phase = "mounted"], "mount")
    IN  IF hasKey(s0) THEN connect(s0) ELSE s0

\* the init effect's cleanup
unmountCleanup(s) == disconnect(Begin([s EXCEPT !.phase = "unmounted"], "unmount"))

\* the EventSources an event of the transport can come from
Whence == {"ref", "orphan"}

\* the readyStates of the EventSources at `whence`
StatesAt(s, whence) ==
    IF whence = "ref" THEN {s.eventSourceRef} ELSE BagToSet(s.orphanSources)

\* the EventSource at `whence` in readyState `from` moves to readyState `to`;
\* an orphan that is CLOSED is garbage
Move(s, whence, from, to) ==
    IF whence = "ref" THEN [s EXCEPT !.eventSourceRef = to]
    ELSE [s EXCEPT !.orphanSources =
            IF IsLive(to) THEN (@ (-) One(from)) (+) One(to) ELSE @ (-) One(from)]

\* the transport event `open`
sourceOpen(s, whence) ==
    onopen(Begin(Move(s, whence, "connecting", "open"), "onopen"))

\* the transport event `error`: the browser either retries by itself
\* (readyState CONNECTING) or gives up (readyState CLOSED)
RoomToRetry(s) == mayRetry(s) => PendingCount(s) < MaxTimers
sourceError(s, whence, from, fatal) ==
    onerror(Begin(Move(s, whence, from, IF fatal THEN "closed" ELSE "connecting"),
                  "onerror"))

\* the transport event `message`
sourceMessage(s, ev) == onmessage(Begin(s, "onmessage"), ev)

\* the timers that can fire
TimersAt(s, whence) ==
    IF whence = "ref"
    THEN IF IsPending(s.reconnectTimeoutRef) THEN {s.reconnectTimeoutRef} ELSE {}
    ELSE BagToSet(s.orphanTimers)

\* the timer has fired: its handle, where still held, refers to a spent timer
Spend(s, whence, timer) ==
    IF whence = "ref" THEN [s EXCEPT !.reconnectTimeoutRef = Timer("spent", timer.delay)]
    ELSE [s EXCEPT !.orphanTimers = @ (-) One(timer)]

timerFire(s, whence, timer) ==
    timerCallback(Begin(Spend(s, whence, timer), "timer"), timer.kind)

RoomToFire(s, whence, timer) ==
    LET s0 == Spend(s, whence, timer)
    IN  RoomToConnect(IF timer.kind = "backoff" THEN disconnect(s0) ELSE s0)
---------------------------------------------------------------------------
(* SpecSession: one session, its owner, the browser's transports and       *)
(* timers, and the page's visibility.                                      *)

\* what a later state needs to know of the state a step started from
Memo(s) == [op |-> s.op, event |-> s.event,
            reconnectAttempts |-> s.reconnectAttempts,
            trackingData |-> s.trackingData]

\* options = {}: enableNotifications, enableToasts and autoReconnect default to
\* true, reconnectInterval to 5000
DefaultSession(orderId, trackingNumber) ==
    NewSession(orderId, trackingNumber, TRUE, DefaultReconnectInterval, TRUE, TRUE, "default")

\* the sessions of SpecSession: every choice of keys under the default
\* options, and each connection option changed in turn
SessionConfigs ==
    { DefaultSession(o, t) : o \in BOOLEAN, t \in BOOLEAN }
    \cup { NewSession(TRUE, FALSE, FALSE, DefaultReconnectInterval, TRUE, TRUE, "default"),
           NewSession(TRUE, FALSE, TRUE, ShortReconnectInterval, TRUE, TRUE, "default"),
           NewSession(TRUE, FALSE, TRUE, DefaultReconnectInterval, FALSE, TRUE, "default") }

\* the sessions of SpecEvents: every choice of the notification options
EventConfigs ==
    { NewSession(TRUE, FALSE, FALSE, DefaultReconnectInterval, toasts, n, p) :
        toasts \in BOOLEAN, n \in BOOLEAN, p \in {"granted", "default"} }

StartWith(configs) ==
    /\ session \in configs
    /\ before = Memo(session)
    /\ retries = 0
    /\ quiesced = FALSE

\* no stream route in the specification
NoServer ==
    /\ clients = <<>>
    /\ clientSeq = 1
    /\ streams = <<>>
    /\ last = [op |-> "load", id |-> 0, raised |-> FALSE, what |-> "", query |-> NoQuery]

\* no aggregator in the specification
NoAggregator ==
    /\ orderIds = <<>>
    /\ children = <<>>
    /\ connections = <<>>
    /\ merged = <<>>
    /\ aggPhase = "rendered"
    /\ effectsDue = FALSE
    /\ acted = 0

\* no session in the specification
NoSession == StartWith({DefaultSession(FALSE, FALSE)})

SessionInit == StartWith(SessionConfigs) /\ NoServer /\ NoAggregator

EventsInit == StartWith(EventConfigs) /\ NoServer /\ NoAggregator

Step(s1, r, q) ==
    /\ before' = Memo(session)
    /\ session' = s1
    /\ retries' = r
    /\ quiesced' = q
    /\ UNCHANGED <<serverVars, aggVars>>

Mount ==
    /\ session.phase = "rendered"
    /\ Step(mountEffect(session), retries, quiesced)

Unmount ==
    /\ session.phase = "mounted"
    /\ Step(unmountCleanup(session), retries, quiesced)

\* the owner calls connect()
Connect ==
    /\ session.phase = "mounted"
    /\ RoomToConnect(session)
    /\ Step(connect(Begin(session, "connect")), retries, FALSE)

\* the owner calls disconnect()
Disconnect ==
    /\ session.phase = "mounted"
    /\ Step(disconnect(Begin(session, "disconnect")), retries, TRUE)

\* the owner calls reconnect()
Reconnect ==
    /\ session.phase = "mounted"
    /\ PendingCount(clearReconnectTimeout(session)) < MaxTimers
    /\ Step(reconnect(Begin(session, "reconnect")), retries, FALSE)

\* the tab becomes visible
Visible ==
    /\ session.phase = "mounted"
    /\ visibleWantsConnect(session) => RoomToConnect(session)
    /\ Step(handleVisibilityChange(Begin(session, "visible")), retries,
            quiesced /\ ~visibleWantsConnect(session))

SourceOpen ==
    \E whence \in Whence :
        /\ "connecting" \in StatesAt(session, whence)
        /\ Step(sourceOpen(session, whence), 0, quiesced)

SourceError ==
    \E whence \in Whence, fatal \in BOOLEAN :
        \E from \in { st \in StatesAt(session, whence) : IsLive(st) } :
            /\ RoomToRetry(session)
            /\ LET s1 == sourceError(session, whence, from, fatal)
               IN  Step(s1, retries + CountSaid(s1, "setTimeout"), quiesced)

SourceMessage ==
    \E whence \in Whence, ev \in WireEvents :
        /\ "open" \in StatesAt(session, whence)
        /\ Step(sourceMessage(session, ev), retries, quiesced)

TimerFire ==
    \E whence \in Whence :
        \E timer \in TimersAt(session, whence) :
            /\ RoomToFire(session, whence, timer)
            /\ Step(timerFire(session, whence, timer), retries, quiesced)

\* the connection life cycle of a session
SessionNext ==
    \/ Mount
    \/ Unmount
    \/ Connect
    \/ Disconnect
    \/ Reconnect
    \/ Visible
    \/ SourceOpen
    \/ SourceError
    \/ TimerFire

SpecSession == SessionInit /\ [][SessionNext]_vars

(* SpecRetry: the retries of a session: transport errors, the timers they  *)
(* schedule, transport opens, and the owner's disconnect().  The browser   *)
(* runs the callback of a timer that stays pending.                        *)

RetryNext ==
    \/ Mount
    \/ Unmount
    \/ Disconnect
    \/ SourceOpen
    \/ SourceError
    \/ TimerFire

SpecRetry == SessionInit /\ [][RetryNext]_vars /\ WF_vars(TimerFire)

\* the events a mounted session receives; onmessage reads and writes none of
\* the handles, the attempt counter or the connected flag
EventsNext ==
    \/ Mount
    \/ Unmount
    \/ SourceOpen
    \/ SourceError
    \/ SourceMessage

SpecEvents == EventsInit /\ [][EventsNext]_vars

(* SpecUpdates: the tracking_update events a mounted session receives,    *)
(* with payloads that carry their lastUpdated timestamp (the earlier       *)
(* timestamp is the smaller number).                                       *)

\* RealTimeTrackingData with its field lastUpdated
TimedPayloads ==
    { p @@ [lastUpdated |-> stamp] : p \in Payloads, stamp \in 1..MaxStamp }

SourceUpdate ==
    \E whence \in Whence, data \in TimedPayloads :
        /\ "open" \in StatesAt(session, whence)
        /\ Step(sourceMessage(session, Event("tracking_update", data, "absent")),
                retries, quiesced)

UpdatesNext ==
    \/ Mount
    \/ Unmount
    \/ SourceOpen
    \/ SourceError
    \/ SourceUpdate

SpecUpdates == EventsInit /\ [][UpdatesNext]_vars

---------------------------------------------------------------------------
(* The Multi-Order Aggregator.  It calls useRealTimeTracking once per      *)
(* order id, in one component, and hands every child the callbacks         *)
(* handleTrackingUpdate(orderId) and handleConnectionChange(orderId).      *)
(* Both are new functions at every render, so at every render after the    *)
(* first each child's connect and disconnect are new too, and each         *)
(* child's init effect, which depends on them, runs again: its cleanup     *)
(* disconnect() and then connect().                                        *)

\* f with key k set to v: { ...prev, [k]: v }
Put(f, k, v) == [x \in (DOMAIN f) \cup {k} |-> IF x = k THEN v ELSE f[x]]

\* setConnections(prev => ({ ...prev, [orderId]: connected }))
handleConnectionChange(conn, orderId, connected) == Put(conn, orderId, connected)

\* setTrackingData(prev => ({ ...prev, [orderId]: data }))
handleTrackingUpdate(mrg, orderId, data) == Put(mrg, orderId, data)

\* the aggregator's two states after the callbacks that child s called,
\* from the i-th call on
RECURSIVE notified(_, _, _, _)
notified(st, orderId, s, i) ==
    IF i > Len(s.calls) THEN st
    ELSE LET c == s.calls[i]
             st1 == CASE c.op = "onConnectionChange" ->
                            [st EXCEPT !.connections =
                                handleConnectionChange(@, orderId, c.n = 1)]
                       [] c.op = "onTrackingUpdate" ->
                            [st EXCEPT !.merged =
                                handleTrackingUpdate(@, orderId, s.event.data)]
                       [] OTHER -> st
         IN  notified(st1, orderId, s, i + 1)

\* the callbacks of the children of indices i..Len(ids), in order
RECURSIVE notifiedAll(_, _, _, _)
notifiedAll(st, ids, kids, i) ==
    IF i > Len(ids) THEN st
    ELSE notifiedAll(notified(st, ids[i], kids[i], 1), ids, kids, i + 1)

\* Object.values(connections).some(Boolean)
isAnyConnected(conn) == \E k \in DOMAIN conn : conn[k]

\* Object.values(connections).every(Boolean)
allConnected(conn) == \A k \in DOMAIN conn : conn[k]

\* useRealTimeTracking(orderId, undefined, { ...options, ... })
ChildSession(autoReconnect) ==
    NewSession(TRUE, FALSE, autoReconnect, DefaultReconnectInterval, TRUE, TRUE, "default")

\* a child the step was not about took no step: it has no calls to show
Rest(s) == [s EXCEPT !.op = "", !.calls = <<>>, !.event = NoEvent]

\* a handler of child s ran: React renders again if it changed a state of the
\* component, and the aggregator's callbacks always set a new object
Rerenders(s0, s1) ==
    /\ s1.phase = "mounted"
    /\ \/ s0.isConnected # s1.isConnected
       \/ s0.error # s1.error
       \/ s0.trackingData # s1.trackingData
       \/ s0.lastUpdate # s1.lastUpdate
       \/ Said(s1, "onConnectionChange")
       \/ Said(s1, "onTrackingUpdate")

\* the init effect of a child runs again: cleanup, then the effect
rerunEffect(s) == connect(disconnect(Begin(s, "effects")))

---------------------------------------------------------------------------
(* SpecAggregator: the aggregator over up to MaxOrderIds distinct order    *)
(* ids, the transports and timers of its children, the page's visibility   *)
(* and the owner's reconnectAll().                                         *)

OrderIdPool == <<"A", "B", "C", "D">>

\* the options the owner passes on: one child may retry, several do not
AggregatorConfigs ==
    { [n |-> n, autoReconnect |-> FALSE] : n \in 0..MaxOrderIds }
    \cup { [n |-> 1, autoReconnect |-> TRUE] }

\* the events a child's stream delivers
AggregatorEvents ==
    { ev \in WireEvents : ev.type \in {"tracking_update", "error", "connected"}
                          /\ ev.message = "absent" }

AggregatorInit ==
    /\ \E cfg \in AggregatorConfigs :
        /\ orderIds = SubSeq(OrderIdPool, 1, cfg.n)
        /\ children = [i \in 1..cfg.n |-> ChildSession(cfg.autoReconnect)]
    /\ connections = <<>>
    /\ merged = <<>>
    /\ aggPhase = "rendered"
    /\ effectsDue = FALSE
    /\ acted = 0
    /\ NoServer
    /\ NoSession

Kids == 1..Len(orderIds)

\* a child may open one more transport
ChildRoom(s) == LiveCount(s) < MaxChildSources

\* the step was about child i alone
ChildStep(i, s1) ==
    LET st == notified([connections |-> connections, merged |-> merged],
                       orderIds[i], s1, 1)
    IN  /\ children' = [k \in Kids |-> IF k = i THEN s1 ELSE Rest(children[k])]
        /\ connections' = IF aggPhase = "mounted" THEN st.connections ELSE connections
        /\ merged' = IF aggPhase = "mounted" THEN st.merged ELSE merged
        /\ effectsDue' = (effectsDue \/ (aggPhase = "mounted" /\ Rerenders(children[i], s1)))
        /\ acted' = i
        /\ UNCHANGED <<orderIds, aggPhase, sessionVars, serverVars>>

\* the step was about every child, in the order of the hooks
AllStep(kids, phase, rerenders) ==
    LET st == notifiedAll([connections |-> connections, merged |-> merged],
                          orderIds, kids, 1)
    IN  /\ children' = kids
        /\ connections' = IF phase = "mounted" THEN st.connections ELSE connections
        /\ merged' = IF phase = "mounted" THEN st.merged ELSE merged
        /\ aggPhase' = phase
        /\ effectsDue' = (phase = "mounted" /\ rerenders)
        /\ acted' = 0
        /\ UNCHANGED <<orderIds, sessionVars, serverVars>>

\* the first effects of the component
AggregatorMount ==
    /\ aggPhase = "rendered"
    /\ AllStep([i \in Kids |-> mountEffect(children[i])], "mounted", FALSE)

\* the component unmounts: every child's cleanup
AggregatorUnmount ==
    /\ aggPhase = "mounted"
    /\ AllStep([i \in Kids |-> unmountCleanup(children[i])], "unmounted", FALSE)

\* the effects run again after a render
RerunEffects ==
    /\ aggPhase = "mounted"
    /\ effectsDue
    /\ \A i \in Kids : ChildRoom(disconnect(children[i]))
    /\ AllStep([i \in Kids |-> rerunEffect(children[i])], "mounted", Kids # {})

\* reconnectAll: () => { trackingHooks.forEach(hook => hook.reconnect()) }
ReconnectAll ==
    /\ aggPhase = "mounted"
    /\ Kids # {}
    /\ \A i \in Kids : PendingCount(clearReconnectTimeout(children[i])) < MaxChildTimers
    /\ AllStep([i \in Kids |-> reconnect(Begin(children[i], "reconnect"))],
               "mounted", TRUE)

\* the tab becomes visible: every child's listener runs
AggregatorVisible ==
    /\ aggPhase = "mounted"
    /\ Kids # {}
    /\ \A i \in Kids : visibleWantsConnect(children[i]) => ChildRoom(children[i])
    /\ AllStep([i \in Kids |-> handleVisibilityChange(Begin(children[i], "visible"))],
               "mounted", effectsDue)

ChildOpen ==
    \E i \in Kids, whence \in Whence :
        /\ "connecting" \in StatesAt(children[i], whence)
        /\ ChildStep(i, sourceOpen(children[i], whence))

ChildError ==
    \E i \in Kids, whence \in Whence, fatal \in BOOLEAN :
        \E from \in { st \in StatesAt(children[i], whence) : IsLive(st) } :
            /\ mayRetry(children[i]) => PendingCount(children[i]) < MaxChildTimers
            /\ ChildStep(i, sourceError(children[i], whence, from, fatal))

ChildMessage ==
    \E i \in Kids, whence \in Whence, ev \in AggregatorEvents :
        /\ "open" \in StatesAt(children[i], whence)
        /\ ChildStep(i, sourceMessage(children[i], ev))

ChildTimer ==
    \E i \in Kids, whence \in Whence :
        \E timer \in TimersAt(children[i], whence) :
            /\ ChildRoom(IF timer.kind = "backoff"
                         THEN disconnect(Spend(children[i], whence, timer))
                         ELSE Spend(children[i], whence, timer))
            /\ ChildStep(i, timerFire(children[i], whence, timer))

AggregatorNext ==
    \/ AggregatorMount
    \/ AggregatorUnmount
    \/ RerunEffects
    \/ ReconnectAll
    \/ AggregatorVisible
    \/ ChildOpen
    \/ ChildError
    \/ ChildMessage
    \/ ChildTimer

SpecAggregator == AggregatorInit /\ [][AggregatorNext]_vars

---------------------------------------------------------------------------
(* Claims about one Client Tracking Session *)

\* C1: at any instant at most one EventSource created by the session is
\* open (CONNECTING or OPEN, not closed).
AtMostOneTransport == LiveCount(session) <= 1

ResetOnSuccess == session.op = "onopen" => session.reconnectAttempts = 0

\* C3 witness: a transport opens when the counter stood at 5
OpenedAfterFiveFailures ==
    /\ session.op = "onopen"
    /\ before.reconnectAttempts = maxReconnectAttempts
    /\ session.reconnectAttempts = 0

\* C7: connect() on a session with neither key (called by the owner or by
\* the timer of reconnect()) sets the validation error, creates no
\* EventSource, schedules no timer and leaves the session disconnected.
ClientValidationGate ==
    (session.op \in {"connect", "timer"} /\ ~hasKey(session) /\ session.phase = "mounted") =>
        /\ session.error = ValidationError
        /\ ~Said(session, "newEventSource")
        /\ ~Said(session, "setTimeout")
        /\ LiveCount(session) = 0
        /\ session.eventSourceRef = "null"
        /\ ~session.isConnected

\* C7 witness: the owner called connect() on a session without keys
ConnectedWithoutKey ==
    /\ session.op = "connect"
    /\ ~hasKey(session)
    /\ session.error = ValidationError

\* what disconnect() is said to leave alone or empty
SessionState(s) == [s EXCEPT !.op = "", !.calls = <<>>, !.event = NoEvent]

\* C8: a disconnect() right after a disconnect() closes nothing, cancels
\* nothing and leaves the session as the first disconnect() left it, with
\* both handles empty and the connected flag false.
IdempotentDisconnect ==
    [][(session.op = "disconnect" /\ session'.op = "disconnect") =>
        /\ SessionState(session') = SessionState(session)
        /\ ~Said(session', "close")
        /\ ~Said(session', "clearTimeout")
        /\ session'.eventSourceRef = "null"
        /\ session'.reconnectTimeoutRef = NoTimer
        /\ ~session'.isConnected]_vars

\* C8 witness: the owner called disconnect() twice in a row
DisconnectedTwice ==
    /\ session.op = "disconnect"
    /\ before.op = "disconnect"

\* C10: after the owner's disconnect(), until the owner's next connect()
\* (or reconnect()) or a visibility-triggered connect, no EventSource of
\* the session is live, no timer is pending and the connected flag is false.
DisconnectQuiesces ==
    quiesced =>
        /\ LiveCount(session) = 0
        /\ PendingCount(session) = 0
        /\ ~session.isConnected

\* C11: right after a connect() of the owner or of the visibility listener
\* has created an EventSource, no reconnect timer of the session is pending.
ConnectCancelsRetry ==
    (session.op \in {"connect", "visible"} /\ Said(session, "newEventSource")) =>
        PendingCount(session) = 0

\* C12: every retry that onerror scheduled and that is still pending is the
\* one reconnectTimeoutRef refers to, so at most one is pending at a time.
SinglePendingTimer ==
    \A timer \in BagToSet(session.orphanTimers) : timer.kind # "backoff"

\* C13: once the hook is unmounted no timer of the session is pending, and
\* no step after the cleanup creates an EventSource, calls the owner or
\* shows a toast.
TeardownOnDisposal ==
    session.phase = "unmounted" =>
        /\ PendingCount(session) = 0
        /\ session.op # "unmount" => session.calls = <<>>

\* the last step was a failure that found the attempt counter of a mounted
\* session at 5
Exhausted ==
    /\ session.phase = "mounted"
    /\ session.op = "onerror"
    /\ session.autoReconnect
    /\ before.reconnectAttempts = maxReconnectAttempts

\* C14: a failure that finds the attempt counter at 5 leaves the session
\* disconnected with no timer pending and shows the terminal toast, and the
\* next step, unless it is a connect of the owner or of the visibility
\* listener, does not connect the session or create an EventSource.
ExhaustionTerminal ==
    [][/\ Exhausted' =>
            /\ ~session'.isConnected
            /\ PendingCount(session') = 0
            /\ session'.enableToasts => Said(session', "toast.exhausted")
       /\ (Exhausted /\ session'.op \in {"onopen", "onerror", "timer"}) =>
            /\ ~session'.isConnected
            /\ ~Said(session', "newEventSource")]_vars

\* the event types onmessage only logs
LoggedOnly == {"connected", "heartbeat", "order_update", "unknown"}

\* C23: a connected, heartbeat, order_update or unknown-type event changes
\* nothing of the session (tracking state, lastUpdate, error, connected
\* flag, attempt counter, transport, timers) and calls nothing: no owner
\* callback, no toast, no notification.
UnhandledEventsInert ==
    [][(session'.op = "onmessage" /\ session'.event.type \in LoggedOnly) =>
          /\ SessionState(session') = SessionState(session)
          /\ session'.calls = <<>>]_vars

\* C23 witness: an unknown-type event arrived at a connected session that
\* holds a tracking state and an error of the server
UnknownEventOnLoadedSession ==
    /\ session.op = "onmessage"
    /\ session.event.type = "unknown"
    /\ session.isConnected
    /\ session.trackingData # NoData
    /\ session.error = "Server failure"

\* C24: an event whose body does not parse, or whose handling throws (the
\* catch of onmessage logs it), leaves the tracking state, the error, the
\* connected flag, the attempt counter and the transport as they were, and
\* schedules no reconnect.
MalformedIsHarmless ==
    [][(session'.op = "onmessage" /\ Said(session', "console.error")) =>
          /\ session'.trackingData = session.trackingData
          /\ session'.error = session.error
          /\ session'.isConnected = session.isConnected
          /\ session'.reconnectAttempts = session.reconnectAttempts
          /\ session'.eventSourceRef = session.eventSourceRef
          /\ ~Said(session', "close")
          /\ ~Said(session', "setTimeout")]_vars

\* the last step handled an event of type error
ErrorEventHandled(s) == s.op = "onmessage" /\ s.event.type = "error"

\* the session's error is one an event of type error recorded
HoldsServerError(s) == s.error \notin {NoError, ConnectionError, ValidationError}

\* what an event of type error does: the error is the event's message (or
\* 'Unknown error'), one error toast where toasts are enabled, and the
\* transport, the connected flag, the attempt counter and the tracking
\* state are as before
ErrorEventEffect ==
    ErrorEventHandled(session') =>
        /\ session'.error = IF session'.event.message = "absent"
                            THEN UnknownError ELSE session'.event.message
        /\ session'.enableToasts => CountSaid(session', "toast.error") = 1
        /\ session'.eventSourceRef = session.eventSourceRef
        /\ session'.isConnected = session.isConnected
        /\ session'.reconnectAttempts = session.reconnectAttempts
        /\ session'.trackingData = session.trackingData
        /\ ~Said(session', "close")

\* C25 as stated: the effect of an event of type error, and the error it
\* recorded stays as it is until a transport open clears it.
ServerErrorPersists ==
    [][/\ ErrorEventEffect
       /\ (HoldsServerError(session) /\ session'.error # session.error) =>
            /\ session'.op = "onopen"
            /\ session'.error = NoError]_vars

\* C25 amended: the effect of an event of type error, and the error it
\* recorded stays as it is until a transport open clears it or a later
\* error (a transport error, another event of type error) replaces it.
ServerErrorRecorded ==
    [][/\ ErrorEventEffect
       /\ (HoldsServerError(session) /\ session'.error # session.error) =>
            \/ session'.op = "onopen" /\ session'.error = NoError
            \/ session'.op = "onerror" /\ session'.error = ConnectionError
            \/ ErrorEventHandled(session')]_vars

\* C25 witness: the error an event recorded is still there after a later
\* tracking_update event
ServerErrorOutlivesUpdate ==
    /\ session.op = "onmessage"
    /\ session.event.type = "tracking_update"
    /\ before.event.type = "error"
    /\ session.error = "Server failure"
    /\ session.isConnected

\* C26: a status_change event with a payload calls onStatusChange once and
\* shows exactly one notification: a system notification where they are
\* enabled and permitted, otherwise (toasts enabled) a toast; the tracking
\* state is as before.
StatusChangeNotifies ==
    (session.op = "onmessage" /\ session.event.type = "status_change"
        /\ session.event.data # NoData) =>
        /\ CountSaid(session, "onStatusChange") = 1
        /\ session.trackingData = before.trackingData
        /\ IF session.enableNotifications /\ session.permission = "granted"
           THEN /\ CountSaid(session, "Notification") = 1
                /\ ~Said(session, "toast.notification")
           ELSE /\ ~Said(session, "Notification")
                /\ session.enableToasts => CountSaid(session, "toast.notification") = 1

\* C27: when the tab becomes visible, a session that is not connected and
\* has a key creates one EventSource at once, whatever timers are pending,
\* and leaves the attempt counter and the timers as they were; a session
\* that is connected creates none and changes nothing.
VisibilityReconnect ==
    [][session'.op = "visible" =>
          /\ session'.reconnectAttempts = session.reconnectAttempts
          /\ session'.reconnectTimeoutRef = session.reconnectTimeoutRef
          /\ session'.orphanTimers = session.orphanTimers
          /\ IF ~session.isConnected /\ hasKey(session)
             THEN /\ session'.calls = <<Call("newEventSource", 0)>>
                  /\ session'.eventSourceRef = "connecting"
             ELSE /\ session'.calls = <<>>
                  /\ SessionState(session') = SessionState(session)]_vars

\* C27 witness: the tab became visible while the second retry was pending,
\* and a session that was not connected created an EventSource
VisibleDuringBackoff ==
    /\ session.op = "visible"
    /\ Said(session, "newEventSource")
    /\ session.reconnectAttempts = 2
    /\ IsPending(session.reconnectTimeoutRef)

\* C28: from one tracking state of a session to the next, the state's
\* lastUpdated does not decrease.
LastUpdatedMonotone ==
    [][(session.trackingData # NoData /\ session'.trackingData # NoData) =>
          session'.trackingData.lastUpdated >= session.trackingData.lastUpdated]_vars

\* C30: after a transport error of a session with auto-reconnect that
\* found the attempt counter below 5, a timer of the session fires and
\* creates an EventSource, unless the owner's disconnect() or reconnect()
\* or the unmount comes first; and a transport
\* open of a mounted session leaves it connected, with the owner told
\* connected = true.
ReconnectLiveness ==
    /\ (session.op = "onerror" /\ session.autoReconnect
            /\ before.reconnectAttempts < maxReconnectAttempts)
          ~> \/ session.op = "timer" /\ Said(session, "newEventSource")
             \/ session.op \in {"disconnect", "reconnect", "unmount"}
    /\ [](session.op = "onopen" /\ session.phase = "mounted" =>
             /\ session.isConnected
             /\ SaidWith(session, "onConnectionChange", 1))

\* C30 witness: the transport that a retry timer created has opened after
\* a failure, and the session is connected
RetryReconnected ==
    /\ session.op = "onopen"
    /\ before.op = "timer"
    /\ before.reconnectAttempts >= 1
    /\ session.isConnected
    /\ SaidWith(session, "onConnectionChange", 1)

\* C5: after a tracking_update event the tracking state of a mounted session
\* is exactly the event's payload.
WholesaleReplace ==
    (session.op = "onmessage" /\ session.event.type = "tracking_update"
        /\ session.phase = "mounted") =>
        session.trackingData = session.event.data

\* C5 witness: two tracking_update events in a row, the first with a carrier
\* and the second without
SecondUpdateDropsCarrier ==
    /\ session.op = "onmessage" /\ session.event.type = "tracking_update"
    /\ before.op = "onmessage" /\ before.event.type = "tracking_update"
    /\ "carrier" \in DOMAIN before.event.data
    /\ before.trackingData # NoData
    /\ session.event.data # NoData
    /\ "carrier" \notin DOMAIN session.trackingData

---------------------------------------------------------------------------
(* The orders event stream: the module-level broadcaster (clients,         *)
(* clientSeq), the route GET and the helper emitOrderEvent.  A chunk is    *)
(* the text that TextEncoder encodes.  The stream of a request is its      *)
(* controller's state ("open", "closed" once close() was called,           *)
(* "cancelled" once the consumer cancelled it), the chunks enqueued, and   *)
(* whether its heartbeat interval is set, and whether the request's signal *)
(* has aborted.                                                            *)

\* what a request asks for: [orderId, trackingNumber], each present or not
Queries ==
    { [orderId |-> TRUE, trackingNumber |-> FALSE],
      [orderId |-> FALSE, trackingNumber |-> TRUE],
      NoQuery }

EventTypes == {"created", "updated", "deleted"}
OrderPayloads == { [orderId |-> "o1"] }

\* JSON.stringify of an order payload
stringify(payload) == "{\"orderId\":\"" \o payload.orderId \o "\"}"

\* `event: ${type}\ndata: ${data}\n\n`
frame(type, data) == "event: " \o type \o "\ndata: " \o data \o "\n\n"

Ack == frame("ping", "connected")
Beat == frame("ping", "heartbeat")

NewStream == [state |-> "open", out |-> <<>>, heartbeat |-> FALSE, aborted |-> FALSE]

\* controller.enqueue(chunk): throws unless the stream is open
enqueue(stream, chunk) ==
    IF stream.state = "open"
    THEN [stream |-> [stream EXCEPT !.out = Append(@, chunk)], threw |-> FALSE]
    ELSE [stream |-> stream, threw |-> TRUE]

\* controller.close(): throws unless the stream is open
close(stream) ==
    IF stream.state = "open"
    THEN [stream |-> [stream EXCEPT !.state = "closed"], threw |-> FALSE]
    ELSE [stream |-> stream, threw |-> TRUE]

\* a run of writes: the streams so far and whether an exception is in flight
Run(ss) == [streams |-> ss, raised |-> FALSE]

writeToUncaught(r, id, message) ==
    IF r.raised THEN r
    ELSE LET e == enqueue(r.streams[id], message)
         IN  [streams |-> [r.streams EXCEPT ![id] = e.stream], raised |-> e.threw]

writeToTwice(r, id, message) ==
    IF r.raised THEN r
    ELSE LET e == enqueue(enqueue(r.streams[id], message).stream, message)
         IN  [streams |-> [r.streams EXCEPT ![id] = e.stream], raised |-> FALSE]

\* try { c.controller.enqueue(message) } catch {}
writeTo(r, id, message) ==
    IF r.raised THEN r
    ELSE LET e == enqueue(r.streams[id], message)
         IN  [streams |-> [r.streams EXCEPT ![id] = e.stream], raised |-> FALSE]

RECURSIVE forEachClientPruning(_, _, _)
forEachClientPruning(r, ids, message) ==
    IF ids = <<>> THEN r
    ELSE LET e == enqueue(r.streams[Head(ids)], message)
         IN  IF e.threw
             THEN forEachClientPruning(r, IF Len(ids) > 1 THEN Tail(Tail(ids)) ELSE <<>>,
                                       message)
             ELSE forEachClientPruning(
                      [streams |-> [r.streams EXCEPT ![Head(ids)] = e.stream],
                       raised |-> FALSE],
                      Tail(ids), message)

\* clients.forEach(c => ...)
RECURSIVE forEachClient(_, _, _)
forEachClient(r, ids, message) ==
    IF ids = <<>> THEN r
    ELSE forEachClient(writeTo(r, Head(ids), message), Tail(ids), message)

emitOrderEventSkippingFirst(ss, ids, type, payload) ==
    forEachClient(Run(ss), IF ids = <<>> THEN ids ELSE Tail(ids),
                  frame(type, stringify(payload)))

emitOrderEvent(ss, ids, type, payload) ==
    forEachClient(Run(ss), ids, frame(type, stringify(payload)))

\* clients.findIndex(c => c.id === client.id), 0 for -1
findIndex(ids, id) ==
    IF \E i \in 1..Len(ids) : ids[i] = id
    THEN CHOOSE i \in 1..Len(ids) : ids[i] = id /\ \A j \in 1..(i - 1) : ids[j] # id
    ELSE 0

spliceToEnd(ids, idx) == SubSeq(ids, 1, idx - 1)

\* clients.splice(idx, 1)
splice(ids, idx) == SubSeq(ids, 1, idx - 1) \o SubSeq(ids, idx + 1, Len(ids))

startByLength(ss, ids, seq) ==
    LET id == Len(ids) + 1
        e  == enqueue(NewStream, Ack)
    IN  [streams |-> (id :> [e.stream EXCEPT !.heartbeat = TRUE]) @@ ss,
         clients |-> Append(ids, id),
         clientSeq |-> seq + 1,
         raised |-> e.threw]

startSilent(ss, ids, seq) ==
    LET id == seq
    IN  [streams |-> ss @@ (id :> [NewStream EXCEPT !.heartbeat = TRUE]),
         clients |-> Append(ids, id),
         clientSeq |-> seq + 1,
         raised |-> FALSE]

\* the start() of the stream that GET constructs; nothing in GET reads the
\* request's query
start(ss, ids, seq) ==
    LET id == seq
        e  == enqueue(NewStream, Ack)
    IN  [streams |-> ss @@ (id :> [e.stream EXCEPT !.heartbeat = TRUE]),
         clients |-> Append(ids, id),
         clientSeq |-> seq + 1,
         raised |-> e.threw]

\* the response of GET: the stream, or createErrorResponse(..., 500, ...)
response(started) == IF started.raised THEN "error 500" ELSE "stream"

\* the heartbeat interval's callback: try { enqueue } catch {}
heartbeat(stream) == enqueue(stream, Beat).stream

onAbortCloseFirst(ss, ids, id) ==
    LET idx == findIndex(ids, id)
    IN  IF close(ss[id]).threw
        THEN [streams |-> [ss EXCEPT ![id].aborted = TRUE], clients |-> ids]
        ELSE [streams |-> [ss EXCEPT ![id] =
                            [close(ss[id]).stream EXCEPT !.heartbeat = FALSE, !.aborted = TRUE]],
              clients |-> IF idx >= 1 THEN splice(ids, idx) ELSE ids]

\* the abort listener of the request of client id
onAbort(ss, ids, id) ==
    LET idx == findIndex(ids, id)
    IN  [streams |-> [ss EXCEPT ![id] =
                        [close(ss[id]).stream EXCEPT !.heartbeat = FALSE, !.aborted = TRUE]],
         clients |-> IF idx >= 1 THEN splice(ids, idx) ELSE ids]

---------------------------------------------------------------------------
(* SpecServer: requests to the stream route, heartbeats, client aborts,    *)
(* consumers cancelling their stream, and broadcasts.                      *)

\* the step, the client it was about, whether it raised to its caller, and
\* what it answered or wrote
Did(op, id, raised, what) ==
    [op |-> op, id |-> id, raised |-> raised, what |-> what, query |-> NoQuery]

ServerInit == NoServer /\ NoSession /\ NoAggregator

Served == DOMAIN streams

\* every open stream the step may write to has room for a chunk
RoomWithin(ids, limit) ==
    \A id \in ids : streams[id].state = "open" => Len(streams[id].out) < limit

Room(ids) == RoomWithin(ids, MaxChunks)

\* a request arrives, one of the first `limit` requests
Accept(limit) ==
    \E query \in Queries :
        /\ clientSeq <= limit
        /\ LET r == start(streams, clients, clientSeq)
           IN  /\ streams' = r.streams
               /\ clients' = r.clients
               /\ clientSeq' = r.clientSeq
               /\ last' = [Did("GET", clientSeq, r.raised, response(r)) EXCEPT !.query = query]
        /\ UNCHANGED <<sessionVars, aggVars>>

Get == Accept(MaxClients)

\* the heartbeat interval of a stream elapses
Heartbeat ==
    \E id \in Served :
        /\ streams[id].heartbeat
        /\ Room({id})
        /\ streams' = [streams EXCEPT ![id] = heartbeat(@)]
        /\ last' = Did("heartbeat", id, FALSE, Beat)
        /\ UNCHANGED <<clients, clientSeq, sessionVars, aggVars>>

\* the client of a request goes away: request.signal aborts
Abort ==
    \E id \in Served :
        /\ ~streams[id].aborted
        /\ LET r == onAbort(streams, clients, id)
           IN  /\ streams' = r.streams
               /\ clients' = r.clients
        /\ last' = Did("abort", id, FALSE, "")
        /\ UNCHANGED <<clientSeq, sessionVars, aggVars>>

\* the consumer of a response body cancels the stream
Cancel ==
    \E id \in Served :
        /\ streams[id].state = "open"
        /\ streams' = [streams EXCEPT ![id].state = "cancelled"]
        /\ last' = Did("cancel", id, FALSE, "")
        /\ UNCHANGED <<clients, clientSeq, sessionVars, aggVars>>

\* another route calls emitOrderEvent(type, payload), type one of `types`
Emission(types, limit) ==
    \E type \in types, payload \in OrderPayloads :
        /\ RoomWithin(Served, limit)
        /\ LET r == emitOrderEvent(streams, clients, type, payload)
           IN  /\ streams' = r.streams
               /\ last' = Did("emit", 0, r.raised, frame(type, stringify(payload)))
        /\ UNCHANGED <<clients, clientSeq, sessionVars, aggVars>>

Broadcast == Emission(EventTypes, MaxChunks)

ServerNext ==
    \/ Get
    \/ Heartbeat
    \/ Abort
    \/ Cancel
    \/ Broadcast

SpecServer == ServerInit /\ [][ServerNext]_vars

(* SpecRegistry: the array of clients under more requests, their aborts,   *)
(* cancelled streams and broadcasts of one type.                           *)

Subscribe == Accept(MaxSubscribers)

\* the route that creates an order announces it
Announce == Emission({"created"}, MaxChunks)

RegistryNext ==
    \/ Subscribe
    \/ Abort
    \/ Cancel
    \/ Announce

SpecRegistry == ServerInit /\ [][RegistryNext]_vars

(* SpecDelivery: the stream of few clients under several broadcasts, with  *)
(* heartbeats, cancelled streams and aborts in between.                    *)

Listen == Accept(MaxListeners)

Deliver == Emission(EventTypes, MaxDelivered)

DeliveryNext ==
    \/ Listen
    \/ Heartbeat
    \/ Abort
    \/ Cancel
    \/ Deliver

SpecDelivery == ServerInit /\ [][DeliveryNext]_vars

(* SpecTeardown: requests, heartbeats, cancelled streams, aborts and        *)
(* broadcasts of one type.                                                 *)

TeardownNext ==
    \/ Get
    \/ Heartbeat
    \/ Abort
    \/ Cancel
    \/ Announce

SpecTeardown == ServerInit /\ [][TeardownNext]_vars

(* SpecFanout: requests whose streams remember what the request asked     *)
(* for, their aborts and broadcasts of one type.                           *)

\* request.url of the request of a stream: the query the client sent
Asked(id) == streams[id].query

Enrol ==
    \E query \in Queries :
        /\ clientSeq <= MaxEnrolled
        /\ LET r == start(streams, clients, clientSeq)
           IN  /\ streams' = [r.streams EXCEPT ![clientSeq] = [query |-> query] @@ @]
               /\ clients' = r.clients
               /\ clientSeq' = r.clientSeq
               /\ last' = [Did("GET", clientSeq, r.raised, response(r)) EXCEPT !.query = query]
        /\ UNCHANGED <<sessionVars, aggVars>>

FanoutNext ==
    \/ Enrol
    \/ Abort
    \/ Announce

SpecFanout == ServerInit /\ [][FanoutNext]_vars

---------------------------------------------------------------------------
(* Claims about the orders event stream *)

Registered == { clients[i] : i \in 1..Len(clients) }
Writable(id) == streams[id].state = "open"
LastChunk(id) == streams[id].out[Len(streams[id].out)]

\* C4: a broadcast returns to its caller without raising, and every
\* registered subscriber whose handle is writable has received its event,
\* whichever subscribers before it have a handle that throws.
BroadcastIsolation ==
    last.op = "emit" =>
        /\ ~last.raised
        /\ \A id \in Registered : Writable(id) => LastChunk(id) = last.what

\* C4 witness: a broadcast over a subscriber whose handle throws, placed
\* before a healthy one that received the event
BroadcastPastBrokenHandle ==
    /\ last.op = "emit"
    /\ \E i, j \in 1..Len(clients) :
        /\ i < j
        /\ ~Writable(clients[i])
        /\ Writable(clients[j])
        /\ LastChunk(clients[j]) = last.what

\* C15: once the abort of a request was handled, its heartbeat interval is
\* cleared, its client is not in clients, its stream is not open, and no
\* later step writes to the stream or changes it.
ServerTeardown ==
    [][\A id \in DOMAIN streams' :
          streams'[id].aborted =>
              /\ ~streams'[id].heartbeat
              /\ id \notin Registered'
              /\ streams'[id].state # "open"
              /\ (id \in DOMAIN streams /\ streams[id].aborted) =>
                     streams'[id] = streams[id]]_vars

\* C15 witness: a broadcast reached another client after the abort of a
\* request whose stream was cancelled before (controller.close() threw)
BroadcastAfterFailedClose ==
    /\ last.op = "emit"
    /\ \E id \in DOMAIN streams :
          /\ streams[id].aborted
          /\ streams[id].state = "cancelled"
    /\ \E id \in Registered : Writable(id) /\ LastChunk(id) = last.what

\* C16: after a broadcast, and after a heartbeat, every client in clients
\* has a stream that can be written to: a client whose handle threw on the
\* write is in clients no more.
SubscriberLifecycle ==
    last.op \in {"emit", "heartbeat"} => \A id \in Registered : Writable(id)

\* the array without the entries of client id, the others in their order
Without(ids, id) == SelectSeq(ids, LAMBDA x : x # id)

\* C18: in every state and for every client ever served, in clients or not,
\* the removal in the abort listener leaves clients without that client and
\* every other entry in place and in order, and a second removal of the
\* same client changes nothing.
UnregisterExact ==
    \A id \in Served :
        LET once  == onAbort(streams, clients, id)
            twice == onAbort(once.streams, once.clients, id)
        IN  /\ once.clients = Without(clients, id)
            /\ id \notin Registered => once.clients = clients
            /\ twice = once

\* C18 witness: the abort of the second of three clients left the first and
\* the third in clients, after a broadcast
RemovedFromTheMiddle ==
    /\ last.op = "abort"
    /\ Len(clients) = 2
    /\ clients[1] < last.id /\ last.id < clients[2]
    /\ \E id \in Registered : Len(streams[id].out) > 1

\* C19: every id allocated so far is below the next id, the client a
\* request registers has an id above every id allocated before, and the
\* ids in clients increase strictly along the array (no id twice).
MonotoneIds ==
    /\ \A id \in Served : id < clientSeq
    /\ Registered \subseteq Served
    /\ \A i, j \in 1..Len(clients) : i < j => clients[i] < clients[j]
    /\ last.op = "GET" =>
          /\ last.id \in Registered
          /\ \A id \in Served \ {last.id} : id < last.id

\* C19 witness: a client registered after the removal of an earlier one,
\* beside a client that stayed
RegisteredAfterRemoval ==
    /\ last.op = "GET"
    /\ Len(clients) >= 2
    /\ \E id \in Served : streams[id].aborted /\ id \notin Registered

\* C20: no step changes or reorders what a stream was given before, and a
\* broadcast appends its event exactly once, after everything before, to
\* the stream of every registered client whose stream is open; so a
\* client reads the events in the order of the broadcasts, each once.
PerSubscriberOrder ==
    [][\A id \in DOMAIN streams :
          /\ Len(streams'[id].out) >= Len(streams[id].out)
          /\ SubSeq(streams'[id].out, 1, Len(streams[id].out)) = streams[id].out
          /\ last'.op = "emit" =>
                streams'[id].out =
                    IF id \in Registered /\ Writable(id)
                    THEN Append(streams[id].out, last'.what)
                    ELSE streams[id].out]_vars

\* C20 witness: a client was given the events of two broadcasts of
\* different types, the earlier one first
TwoBroadcastsInOrder ==
    /\ last.op = "emit"
    /\ \E id \in Registered :
          \E i, j \in 1..Len(streams[id].out) :
              /\ i < j
              /\ j = Len(streams[id].out)
              /\ streams[id].out[i] \notin {Ack, Beat}
              /\ streams[id].out[i] # streams[id].out[j]
              /\ streams[id].out[j] = last.what

\* C21: the stream of every request served holds the connection-ack as its
\* first chunk, from the step that served the request on: no heartbeat and
\* no broadcast is written to a stream before its ack.
AckFirst ==
    /\ \A id \in Served :
          /\ streams[id].out # <<>>
          /\ Head(streams[id].out) = Ack
    /\ last.op = "GET" => streams[last.id].out = <<Ack>>

\* C21 witness: one stream holds its ack and then a heartbeat, another its
\* ack and then the event of the last broadcast
AckThenBeatAndEvent ==
    /\ last.op = "emit"
    /\ \E id \in Served : streams[id].out = <<Ack, Beat>>
    /\ \E id \in Registered : streams[id].out = <<Ack, last.what>>

\* an order event: a chunk that is neither the ack nor a heartbeat
IsOrderEvent(chunk) == chunk \notin {Ack, Beat}

\* C22: a broadcast appends its event to the stream of every client that
\* is in clients at the call and can be written to, whatever its request
\* asked for, and changes no other stream; the stream of a request served
\* later starts with the ack alone, so it never holds that event.
DeliverySet ==
    [][/\ last'.op = "emit" =>
            \A id \in Served :
                streams'[id].out =
                    IF id \in Registered /\ Writable(id)
                    THEN Append(streams[id].out, last'.what)
                    ELSE streams[id].out
       /\ last'.op = "GET" =>
            /\ \A k \in 1..Len(streams'[last'.id].out) :
                  ~IsOrderEvent(streams'[last'.id].out[k])
            /\ \A id \in Served : streams'[id] = streams[id]]_vars

\* C22 witness: a request is served after a broadcast that reached two
\* clients which asked for different things (an order id, a tracking
\* number); its stream holds the ack alone
ServedAfterBroadcast ==
    /\ last.op = "GET"
    /\ streams[last.id].out = <<Ack>>
    /\ \E a, b \in Registered \ {last.id} :
          /\ Asked(a).orderId /\ ~Asked(a).trackingNumber
          /\ Asked(b).trackingNumber /\ ~Asked(b).orderId
          /\ IsOrderEvent(LastChunk(a))
          /\ LastChunk(a) = LastChunk(b)

\* how many times the chunk is in what a stream was given
Occurrences(out, chunk) == Cardinality({ k \in 1..Len(out) : out[k] = chunk })

\* C29: the abort listener and emitOrderEvent each run to completion, so a
\* removal comes before or after a whole broadcast: a broadcast leaves
\* clients as it is and gives its event exactly once to every client in
\* clients whose stream is open, and a removal changes the stream of no
\* other client and removes no other client.
BroadcastAtomic ==
    [][/\ last'.op = "emit" =>
            /\ clients' = clients
            /\ \A id \in Registered :
                  Writable(id) =>
                      Occurrences(streams'[id].out, last'.what) =
                          Occurrences(streams[id].out, last'.what) + 1
       /\ last'.op = "abort" =>
            \A id \in Served \ {last'.id} :
                /\ streams'[id] = streams[id]
                /\ id \in Registered => id \in Registered']_vars

\* C29 witness: a broadcast after the removal of the client between two
\* others gave its event once to each of the two
BroadcastAroundRemoval ==
    /\ last.op = "emit"
    /\ Len(clients) = 2
    /\ \E x \in Served :
          /\ streams[x].aborted
          /\ clients[1] < x /\ x < clients[2]
    /\ \A i \in 1..2 : streams[clients[i]].out = <<Ack, last.what>>

\* C9: a request with neither an order id nor a tracking number gets an
\* error response; no subscriber is registered for it and no
\* connection-ack is written.
ServerValidationGate ==
    (last.op = "GET" /\ last.query = NoQuery) =>
        /\ last.what # "stream"
        /\ last.id \notin Registered
        /\ last.id \notin DOMAIN streams

---------------------------------------------------------------------------
(* Claims about the Multi-Order Aggregator *)

\* C6: in every state of a mounted aggregator isAnyConnected is the OR and
\* allConnected is the AND of the connected flags of the child sessions,
\* one per order id.
AggregatorLogic ==
    aggPhase = "mounted" =>
        /\ isAnyConnected(connections) = (\E i \in Kids : children[i].isConnected)
        /\ allConnected(connections) = (\A i \in Kids : children[i].isConnected)

\* what of a child its siblings are said to leave alone
ChildCore(s) ==
    [eventSourceRef |-> s.eventSourceRef, orphanSources |-> s.orphanSources,
     isConnected |-> s.isConnected, reconnectAttempts |-> s.reconnectAttempts,
     trackingData |-> s.trackingData]

\* C17: after a transport or timer event of one child, a step that is not
\* one of the owner (mount, unmount, reconnectAll) or of the page
\* (visibility) changes the transport, the connected flag, the attempt
\* counter and the tracking state of no sibling, and closes or creates no
\* EventSource of a sibling: of no child other than that one and the one
\* the step itself is about.
ChildIndependence ==
    [][~(AggregatorMount \/ AggregatorUnmount \/ ReconnectAll \/ AggregatorVisible) =>
          \A k \in Kids :
              (acted \notin {0, k} /\ acted' # k) =>
                  /\ ChildCore(children'[k]) = ChildCore(children[k])
                  /\ ~Said(children'[k], "close")
                  /\ ~Said(children'[k], "newEventSource")]_vars

====
